---- MODULE Spec2Model ----
(***************************************************************************)
(* PotluckSolver (src/pce/solver.py): iterated elimination of strategy     *)
(* profiles under network-restricted rationality.  A profile survives a    *)
(* round when, for every player, the player's action is a best response to *)
(* some conjecture over the opponent-tuples that agree with the profile on *)
(* the actions of the player's neighbors.                                  *)
(*                                                                         *)
(* Players and actions are numbered from 0 as in the code; a profile is a  *)
(* sequence, so player i's action in profile p is p[i + 1].                *)
(***************************************************************************)
EXTENDS Integers, Sequences, FiniteSets, TLC

\* ------------------------------------------------------------- bounds
\* Games have at most MaxPlayers players with at most MaxActions actions
\* each and at most MaxProfiles profiles; utilities of the enumerated games
\* lie in 0..MaxUtil; NumGames payoff tables are enumerated per shape, each
\* the base-(MaxUtil+1) digits of a multiple of SeedStride.
MaxPlayers == 3
MaxActions == 3
MaxProfiles == 9
MaxUtil == 2
NumGames == 100
GameDigits == 8
SeedStride == 577
\* Payoff tables enumerated per shape when the backend may not decide.
NumAmbiguousGames == 1
\* Payoff tables enumerated per shape when the network does not fit the game.
NumInvalidGames == 2

VARIABLES
    numPlayers,         \* gameWrapper.numPlayers
    numActions,         \* gameWrapper.numActions
    game,               \* gameWrapper.game: profile -> utility vector
    network,            \* self.network: [nodes, edges]
    faults,             \* statuses other than Optimal/Infeasible the backend may report
    profiles,           \* self.profiles
    profilesToConsider, \* reduceProfiles' argument
    reducedProfiles,    \* reduceProfiles' result list
    it,                 \* position of `for profile in profilesToConsider`
    profile,            \* loop variable of reduceProfiles / argument of the oracles
    player,             \* loop variable of reduceProfiles / argument of the oracles
    consistent,         \* the support last computed by consistentStrategies
    status,             \* prob.status of the last LP solved
    isBestResponse,     \* the last value returned by checkBestResponse
    previous_size,      \* solve's previous_size
    current_size,       \* solve's current_size
    rounds,             \* number of calls of reduceProfiles made by solve
    pc                  \* control point

vars == <<numPlayers, numActions, game, network, faults, profiles,
          profilesToConsider, reducedProfiles, it, profile, player,
          consistent, status, isBestResponse, previous_size, current_size,
          rounds, pc>>

\* ------------------------------------------------------------ helpers
RECURSIVE Pow(_, _)
Pow(b, e) == IF e = 0 THEN 1 ELSE b * Pow(b, e - 1)

RECURSIVE Factorial(_)
Factorial(n) == IF n <= 1 THEN 1 ELSE n * Factorial(n - 1)

Range(s) == {s[j] : j \in DOMAIN s}

RECURSIVE SumOver(_, _)
SumOver(f, S) ==
    IF S = {} THEN 0
    ELSE LET x == CHOOSE y \in S : TRUE IN f[x] + SumOver(f, S \ {x})

\* The profile of rank r (0-based) in lexicographic order.
ProfileOfRank(r, n, k) == [j \in 1..n |-> (r \div Pow(k, n - j)) % k]

\* itertools.product(range(k), repeat=n): every profile, lexicographically.
product(k, n) == [r \in 1..Pow(k, n) |-> ProfileOfRank(r - 1, n, k)]

RankOf(p, n, k) == CHOOSE r \in 0..(Pow(k, n) - 1) : ProfileOfRank(r, n, k) = p

\* ------------------------------------------------- the inputs of a run
\* Shapes (numPlayers, numActions) within the bounds.
Shapes ==
    {s \in (1..MaxPlayers) \X (1..MaxActions) : Pow(s[2], s[1]) <= MaxProfiles}

\* One entry of an enumerated payoff table.
Utility(seed, e) ==
    LET B == MaxUtil + 1
    IN (((seed * SeedStride) % Pow(B, GameDigits)) \div Pow(B, e % GameDigits)) % B

GameOf(seed, n, k) ==
    [p \in Range(product(k, n)) |->
        [i \in 1..n |-> Utility(seed, (i - 1) * Pow(k, n) + RankOf(p, n, k))]]

\* The 2-player, 2-action game of the worked scenario.
WorkedGame ==
    (<<0, 0>> :> <<3, 3>>) @@ (<<0, 1>> :> <<0, 5>>) @@
    (<<1, 0>> :> <<5, 0>>) @@ (<<1, 1>> :> <<1, 1>>)

Games(n, k) ==
    {GameOf(seed, n, k) : seed \in 0..(NumGames - 1)}
        \cup (IF n = 2 /\ k = 2 THEN {WorkedGame} ELSE {})

\* Undirected graphs without self-loops on the nodes 0..n-1.
Networks(n) ==
    LET nodes == 0..(n - 1)
        pairs == {{a, b} : a \in nodes, b \in nodes} \ {{a} : a \in nodes}
    IN {[nodes |-> nodes, edges |-> E] : E \in SUBSET pairs}

\* Graphs whose node set is not 0..n-1: a player is missing, or the index n,
\* which is no player, is a node (alone, or with every player present).
InvalidNetworks(n) ==
    LET pairsOf(N) == {{a, b} : a \in N, b \in N} \ {{a} : a \in N}
    IN UNION {{[nodes |-> N, edges |-> E] : E \in SUBSET pairsOf(N)} :
                 N \in (SUBSET (0..n)) \ {0..(n - 1)}}

\* Mutant: an edge is followed from its larger end only.
neighborsBelow(pl) == {m \in network.nodes : m < pl /\ {pl, m} \in network.edges}

\* nx.Graph.neighbors
neighbors(pl) == {m \in network.nodes : {pl, m} \in network.edges}

\* -------------------------------------------------- Consistency Oracle
\* Mutant: the player's own action is kept (list(p)[:player] + list(p)[player:]).
opponentsKeepOwn(p, pl) == SubSeq(p, 1, pl) \o SubSeq(p, pl + 1, Len(p))

\* list(p)[:player] + list(p)[player + 1:]
opponents(p, pl) == SubSeq(p, 1, pl) \o SubSeq(p, pl + 2, Len(p))

\* Mutant: the candidate is read at the player's position (p[player]).
agreesAtPlayer(pr, p, pl) == \A n \in neighbors(pl) : pr[n + 1] = p[pl + 1]

\* all(profile[i] == p[i] for i in self.network.neighbors(player))
agrees(pr, p, pl) == \A n \in neighbors(pl) : pr[n + 1] = p[n + 1]

consistentStrategies(pr, pl, cands) ==
    {opponents(cands[j], pl) : j \in {q \in DOMAIN cands : agrees(pr, cands[q], pl)}}

\* How the loop of consistentStrategies can end.  For each candidate,
\* self.network.neighbors(player) raises NetworkXError when the player is
\* not a node of the graph, and profile[i] raises IndexError for a neighbor
\* i that is no position of the profile.  all(...) stops at the first
\* neighbor on which the candidate differs from the profile: the access is
\* certain for a candidate that agrees with the profile on every neighbor
\* that is a position, and otherwise it depends on the order in which the
\* graph yields the neighbors.
consistentStrategiesOutcomes(pr, pl, cands) ==
    IF cands = <<>> THEN {"returns"}
    ELSE IF pl \notin network.nodes THEN {"NetworkXError"}
    ELSE LET inside == {n \in neighbors(pl) : n < numPlayers}
         IN IF neighbors(pl) = inside THEN {"returns"}
            ELSE IF \E j \in DOMAIN cands :
                       \A n \in inside : pr[n + 1] = cands[j][n + 1]
            THEN {"IndexError"}
            ELSE {"IndexError", "returns"}

\* ------------------------------------------------ the linear program
\* A row r stands for r[1] + r[2]*x1 + ... + r[m+1]*xm <= 0.
RECURSIVE FourierMotzkin(_, _)
FourierMotzkin(rows, v) ==
    \A R \in {rows} :
        IF v = 0 THEN \A r \in R : r[1] <= 0
        ELSE LET pos == {r \in R : r[v + 1] > 0}
                 neg == {r \in R : r[v + 1] < 0}
                 zero == {r \in R : r[v + 1] = 0}
                 keep == {[t \in 1..v |-> r[t]] : r \in zero}
                 comb == {[t \in 1..v |-> p[v + 1] * n[t] - n[v + 1] * p[t]] :
                              p \in pos, n \in neg}
             IN FourierMotzkin(keep \cup comb, v - 1)

\* The rows of a problem: variable bounds, then each constraint.
Rows(lp) ==
    LET m == lp.n
        unit(j, c0, s) == [t \in 1..(m + 1) |->
                              IF t = 1 THEN c0 ELSE IF t = j + 1 THEN s ELSE 0]
        le(c) == [t \in 1..(m + 1) |-> IF t = 1 THEN 0 - c.rhs ELSE c.coef[t - 1]]
        ge(c) == [t \in 1..(m + 1) |-> IF t = 1 THEN c.rhs ELSE 0 - c.coef[t - 1]]
    IN {unit(j, lp.lowBound, -1) : j \in 1..m}
         \cup {unit(j, 0 - lp.upBound, 1) : j \in 1..m}
         \cup {le(c) : c \in lp.constraints}
         \cup {ge(c) : c \in {d \in lp.constraints : d.sense = "=="}}

\* prob.solve(self.solver) with a backend that decides the problem: the
\* objective is constant, so the problem is Optimal (1) when it has a
\* solution and Infeasible (-1) when it has none.
Solve(lp) == IF FourierMotzkin(Rows(lp), lp.n) THEN 1 ELSE -1

\* list(consistent): some fixed enumeration of the support.
RECURSIVE orderedConsistent(_)
orderedConsistent(cons) ==
    IF cons = {} THEN <<>>
    ELSE LET o == CHOOSE x \in cons : TRUE
         IN <<o>> \o orderedConsistent(cons \ {o})

\* Mutant: the action is put in front of the opponent-tuple.
utilityOfFront(o, pl, action) == game[<<action>> \o o][pl + 1]

\* self.game[o[:player] + (action,) + o[player:]][player]
utilityOf(o, pl, action) ==
    game[SubSeq(o, 1, pl) \o <<action>> \o SubSeq(o, pl + 1, Len(o))][pl + 1]

\* sum(variables) == 1
probabilityConstraint(m) ==
    [coef |-> [j \in 1..m |-> 1], sense |-> "==", rhs |-> 1]

\* `prob += sum(variables) == 1` with no variables: sum([]) is the int 0, so
\* the right-hand side is the Python value False, and LpProblem.__iadd__
\* raises TypeError on False instead of adding a constraint.
probabilityConstraintRaises(cons) == cons = {}

\* Mutant: the inequality is turned around (action_utility <= the sum).
utilityConstraintReversed(ordered, pr, pl, action) ==
    [coef |-> [j \in 1..Len(ordered) |->
                  utilityOf(ordered[j], pl, pr[pl + 1])
                      - utilityOf(ordered[j], pl, action)],
     sense |-> "<=", rhs |-> 0]

\* sum(variables[j] * u(action, o_j)) <= action_utility
utilityConstraint(ordered, pr, pl, action) ==
    [coef |-> [j \in 1..Len(ordered) |->
                  utilityOf(ordered[j], pl, action)
                      - utilityOf(ordered[j], pl, pr[pl + 1])],
     sense |-> "<=", rhs |-> 0]

\* The problem checkBestResponse builds from the enumerated support: one
\* variable in [0, 1] per opponent-tuple.
bestResponseLP(pr, pl, ordered) ==
    [n |-> Len(ordered), lowBound |-> 0, upBound |-> 1,
     constraints |->
         {probabilityConstraint(Len(ordered))}
             \cup {utilityConstraint(ordered, pr, pl, a) :
                       a \in 0..(numActions - 1)}]

\* The status checkBestResponse finds in prob.status when the backend
\* decides the problem.
checkStatus(pr, pl, cons) ==
    CHOOSE st \in {Solve(lp) :
                     lp \in {bestResponseLP(pr, pl, ordered) :
                                 ordered \in {orderedConsistent(cons)}}} : TRUE

\* The statuses prob.solve may leave in prob.status.
solverStatuses(pr, pl, cons) == {checkStatus(pr, pl, cons)} \cup faults

\* if prob.status == -1: return False; return True
returnValue(st) == st # -1

\* ------------------------------------------------- Reduction Operator
\* Mutant: the list being filtered in place (survivors so far, then the
\* profiles not yet examined).
supportSourceInPlace(cands, reduced, pos) ==
    reduced \o SubSeq(cands, pos, Len(cands))

\* The list the supports of a round are computed from.
supportSource(cands, reduced, pos) == cands

\* Mutant: only the last player's check ends the loop without the else clause.
loopBrokenLastOnly(isBR, pl) == ~isBR /\ pl + 1 = numPlayers

\* `if not isBestResponse: break`
loopBroken(isBR, pl) == ~isBR

\* Mutant: the profile is appended twice.
retainTwice(reduced, pr) == Append(Append(reduced, pr), pr)

\* The for-else clause: reducedProfiles.append(profile)
retain(reduced, pr) == Append(reduced, pr)

\* ---------------------------------------------------- Fixed-Point Solver
\* float("inf"): above every list length.
Inf == MaxProfiles * 2 + 2

\* Mutant: the loop goes on only after a round removed two or more profiles.
loopConditionOffByOne(prev, cur) == prev - cur > 1

\* Mutant: the loop goes on while the size did not grow.
loopConditionNonStrict(prev, cur) == prev - cur >= 0

\* while previous_size - current_size > 0
loopCondition(prev, cur) == prev - cur > 0

\* A cap on the rounds counter, above every round count a run can reach.
RoundCap == MaxProfiles + 2

Init ==
    /\ \E s \in Shapes : numPlayers = s[1] /\ numActions = s[2]
    /\ game \in Games(numPlayers, numActions)
    /\ network \in Networks(numPlayers)
    /\ faults = {}
    /\ profiles = product(numActions, numPlayers)
    /\ profilesToConsider = <<>>
    /\ reducedProfiles = <<>>
    /\ it = 1
    /\ profile = <<>>
    /\ player = 0
    /\ consistent = {}
    /\ status = 0
    /\ isBestResponse = FALSE
    /\ previous_size = Inf
    /\ current_size = Len(profiles)
    /\ rounds = 0
    /\ pc = "while"

\* The loop test succeeds: previous_size = current_size and reduceProfiles
\* is entered with self.profiles.
EnterRound ==
    /\ pc = "while"
    /\ loopCondition(previous_size, current_size)
    /\ rounds < RoundCap
    /\ previous_size' = current_size
    /\ profilesToConsider' = profiles
    /\ reducedProfiles' = <<>>
    /\ it' = 1
    /\ rounds' = rounds + 1
    /\ pc' = "for_profile"
    /\ UNCHANGED <<numPlayers, numActions, game, network, faults, profiles,
                   profile, player, consistent, status, isBestResponse,
                   current_size>>

\* The loop test fails: solve returns self.profiles.
ExitLoop ==
    /\ pc = "while"
    /\ ~loopCondition(previous_size, current_size)
    /\ pc' = "done"
    /\ UNCHANGED <<numPlayers, numActions, game, network, faults, profiles,
                   profilesToConsider, reducedProfiles, it, profile, player,
                   consistent, status, isBestResponse, previous_size,
                   current_size, rounds>>

\* `for profile in profilesToConsider` yields the next profile.
NextProfile ==
    /\ pc = "for_profile"
    /\ it <= Len(profilesToConsider)
    /\ profile' = profilesToConsider[it]
    /\ player' = 0
    /\ pc' = "for_player"
    /\ UNCHANGED <<numPlayers, numActions, game, network, faults, profiles,
                   profilesToConsider, reducedProfiles, it, consistent, status,
                   isBestResponse, previous_size, current_size, rounds>>

\* One iteration of `for player in range(numPlayers)`.  An exception raised
\* by consistentStrategies or checkBestResponse leaves reduceProfiles and
\* solve.
CheckPlayer ==
    /\ pc = "for_player"
    /\ \E out \in consistentStrategiesOutcomes(
                       profile, player,
                       supportSource(profilesToConsider, reducedProfiles, it)) :
       IF out # "returns"
       THEN /\ pc' = out
            /\ UNCHANGED <<consistent, status, isBestResponse, it, player,
                           reducedProfiles>>
       ELSE
       \E cons \in {consistentStrategies(
                        profile, player,
                        supportSource(profilesToConsider, reducedProfiles, it))} :
       IF probabilityConstraintRaises(cons)
       THEN /\ consistent' = cons
            /\ pc' = "TypeError"
            /\ UNCHANGED <<status, isBestResponse, it, player, reducedProfiles>>
       ELSE
       \E st \in solverStatuses(profile, player, cons) :
            /\ consistent' = cons
            /\ status' = st
            /\ isBestResponse' = returnValue(st)
            /\ IF loopBroken(returnValue(st), player)
               THEN /\ it' = it + 1
                    /\ pc' = "for_profile"
                    /\ UNCHANGED <<player, reducedProfiles>>
               ELSE IF player + 1 < numPlayers
               THEN /\ player' = player + 1
                    /\ UNCHANGED <<it, pc, reducedProfiles>>
               ELSE /\ reducedProfiles' = retain(reducedProfiles, profile)
                    /\ it' = it + 1
                    /\ pc' = "for_profile"
                    /\ UNCHANGED player
    /\ UNCHANGED <<numPlayers, numActions, game, network, faults, profiles,
                   profilesToConsider, profile, previous_size, current_size,
                   rounds>>

\* reduceProfiles returns; solve stores the list and its length.
ReturnReduced ==
    /\ pc = "for_profile"
    /\ it > Len(profilesToConsider)
    /\ profiles' = reducedProfiles
    /\ current_size' = Len(reducedProfiles)
    /\ pc' = "while"
    /\ UNCHANGED <<numPlayers, numActions, game, network, faults,
                   profilesToConsider, reducedProfiles, it, profile, player,
                   consistent, status, isBestResponse, previous_size, rounds>>

Next ==
    \/ EnterRound
    \/ ExitLoop
    \/ NextProfile
    \/ CheckPlayer
    \/ ReturnReduced

Spec == Init /\ [][Next]_vars

\* -------------------------------------------------- the oracles alone
\* consistentStrategies and checkBestResponse called on arguments of the
\* caller's choice: any reference profile, player and candidate list; any
\* game, player, action and support, the empty one included.
SubLists(seq) ==
    {SelectSeq(seq, LAMBDA p : p \in S) : S \in SUBSET Range(seq)}

OpponentTuples(n, k) == Range(product(k, n - 1))

InitFn ==
    /\ \E s \in Shapes : numPlayers = s[1] /\ numActions = s[2]
    /\ pc \in {"call_consistentStrategies", "call_checkBestResponse"}
    /\ profile \in Range(product(numActions, numPlayers))
    /\ player \in 0..(numPlayers - 1)
    /\ IF pc = "call_consistentStrategies"
       THEN /\ game = GameOf(0, numPlayers, numActions)
            /\ network \in Networks(numPlayers)
            /\ profilesToConsider \in SubLists(product(numActions, numPlayers))
            /\ consistent = {}
       ELSE /\ game \in Games(numPlayers, numActions)
            /\ network = [nodes |-> 0..(numPlayers - 1), edges |-> {}]
            /\ profilesToConsider = <<>>
            /\ consistent \in SUBSET OpponentTuples(numPlayers, numActions)
    /\ faults = {}
    /\ profiles = product(numActions, numPlayers)
    /\ reducedProfiles = <<>>
    /\ it = 1
    /\ status = 0
    /\ isBestResponse = FALSE
    /\ previous_size = Inf
    /\ current_size = Len(profiles)
    /\ rounds = 0

CallConsistentStrategies ==
    /\ pc = "call_consistentStrategies"
    /\ \E out \in consistentStrategiesOutcomes(profile, player, profilesToConsider) :
         IF out # "returns"
         THEN pc' = out /\ UNCHANGED consistent
         ELSE /\ consistent' =
                     consistentStrategies(profile, player, profilesToConsider)
              /\ pc' = "returned_consistentStrategies"
    /\ UNCHANGED <<numPlayers, numActions, game, network, faults, profiles,
                   profilesToConsider, reducedProfiles, it, profile, player,
                   status, isBestResponse, previous_size, current_size, rounds>>

CallCheckBestResponse ==
    /\ pc = "call_checkBestResponse"
    /\ IF probabilityConstraintRaises(consistent)
       THEN /\ pc' = "TypeError"
            /\ UNCHANGED <<status, isBestResponse>>
       ELSE /\ \E st \in solverStatuses(profile, player, consistent) :
                 /\ status' = st
                 /\ isBestResponse' = returnValue(st)
            /\ pc' = "returned_checkBestResponse"
    /\ UNCHANGED <<numPlayers, numActions, game, network, faults, profiles,
                   profilesToConsider, reducedProfiles, it, profile, player,
                   consistent, previous_size, current_size, rounds>>

NextFn ==
    \/ CallConsistentStrategies
    \/ CallCheckBestResponse

SpecFn == InitFn /\ [][NextFn]_vars

\* ------------------------------------- a backend that may not decide
\* The same run with a backend that may leave a status other than Optimal
\* (1) and Infeasible (-1) after any solve: Not Solved (0), Unbounded (-2)
\* or Undefined (-3).
InitAmbiguous ==
    /\ \E s \in Shapes : numPlayers = s[1] /\ numActions = s[2]
    /\ game \in {GameOf(seed, numPlayers, numActions) :
                     seed \in 1..NumAmbiguousGames}
                    \cup (IF numPlayers = 2 /\ numActions = 2
                          THEN {WorkedGame} ELSE {})
    /\ network \in Networks(numPlayers)
    /\ faults = {0, -2, -3}
    /\ profiles = product(numActions, numPlayers)
    /\ profilesToConsider = <<>>
    /\ reducedProfiles = <<>>
    /\ it = 1
    /\ profile = <<>>
    /\ player = 0
    /\ consistent = {}
    /\ status = 0
    /\ isBestResponse = FALSE
    /\ previous_size = Inf
    /\ current_size = Len(profiles)
    /\ rounds = 0
    /\ pc = "while"

SpecAmbiguous == InitAmbiguous /\ [][Next]_vars

\* ------------------------------- a network that does not fit the game
\* The same run on a graph whose node set is not the set of players;
\* __init__ only asserts that the network is not None.
InitInvalidNetwork ==
    /\ \E s \in Shapes : numPlayers = s[1] /\ numActions = s[2]
    /\ game \in {GameOf(seed, numPlayers, numActions) :
                     seed \in 1..NumInvalidGames}
    /\ network \in InvalidNetworks(numPlayers)
    /\ faults = {}
    /\ profiles = product(numActions, numPlayers)
    /\ profilesToConsider = <<>>
    /\ reducedProfiles = <<>>
    /\ it = 1
    /\ profile = <<>>
    /\ player = 0
    /\ consistent = {}
    /\ status = 0
    /\ isBestResponse = FALSE
    /\ previous_size = Inf
    /\ current_size = Len(profiles)
    /\ rounds = 0
    /\ pc = "while"

SpecInvalidNetwork == InitInvalidNetwork /\ [][Next]_vars

\* Termination of solve is checked under weak fairness of the steps: the
\* program is sequential and its interpreter keeps running it.
FairSpec == Spec /\ WF_vars(Next)

\* ===================================================================
\* Properties
\* ===================================================================
Players == 0..(numPlayers - 1)

InRound == {"for_profile", "for_player"}

\* A round has just returned: profilesToConsider is its input and
\* profiles its output.
RoundReturned == pc = "while" /\ rounds >= 1

\* p with coordinate pl removed, the others in player order.
Strip(p, pl) == [j \in 1..(Len(p) - 1) |-> IF j <= pl THEN p[j] ELSE p[j + 1]]

\* The opponent-tuples of the profiles of S that agree with pr on the
\* action of every neighbor of pl.
SupportFrom(pr, pl, S) ==
    {Strip(q, pl) :
        q \in {x \in S : \A e \in network.edges :
                  \A n \in e : (pl \in e /\ n # pl) => x[n + 1] = pr[n + 1]}}

\* Player pl's check of profile p against the candidate list S succeeds.
CheckSucceeds(p, pl, S) ==
    returnValue(checkStatus(p, pl, consistentStrategies(p, pl, S)))

\* C1: reduceProfiles only filters (its result list holds members of its
\* input only) and the candidate set never grows from one step of solve to
\* the next.
C1_FilterNeverGrows ==
    /\ [](Range(reducedProfiles) \subseteq Range(profilesToConsider))
    /\ [][/\ Range(profiles') \subseteq Range(profiles)
          /\ Len(profiles') <= Len(profiles)]_vars

\* A round has returned strictly fewer profiles than it was given, and not none.
C1_Witness ==
    RoundReturned /\ 0 < Len(profiles) /\ Len(profiles) < Len(profilesToConsider)

\* C2: when a round returns, a profile of its input is in its output iff
\* the check succeeds for every player; one failing player removes it.
C2_RetainedIffAllPlayers ==
    RoundReturned =>
        \A j \in DOMAIN profilesToConsider :
            (profilesToConsider[j] \in Range(profiles))
                <=> (\A pl \in Players :
                        CheckSucceeds(profilesToConsider[j], pl, profilesToConsider))

\* A round removed a profile whose first player fails the check while a
\* later player passes it (the loop stopped before reaching that player).
C2_Witness ==
    /\ RoundReturned
    /\ \E j \in DOMAIN profilesToConsider :
         /\ profilesToConsider[j] \notin Range(profiles)
         /\ ~CheckSucceeds(profilesToConsider[j], 0, profilesToConsider)
         /\ \E pl \in Players :
              CheckSucceeds(profilesToConsider[j], pl, profilesToConsider)

\* C6: the list solve returns is a fixed point of the reduction (the last
\* round returned its input unchanged, and every profile of the result
\* passes every player's check against the result); solve stops exactly
\* after the first round whose output is as long as its input.
C6_FixedPoint ==
    /\ [](pc = "done" =>
            /\ profiles = profilesToConsider
            /\ \A j \in DOMAIN profiles :
                 \A pl \in Players : CheckSucceeds(profiles[j], pl, profiles))
    /\ [][RoundReturned =>
            ((pc' = "done") <=> (Len(profiles) = Len(profilesToConsider)))]_vars

\* solve has returned after at least one shrinking round, with a
\* non-empty proper subset of the profiles.
C6_Witness ==
    /\ pc = "done"
    /\ rounds >= 2
    /\ 0 < Len(profiles)
    /\ Len(profiles) < Pow(numActions, numPlayers)

\* C7: every support of a round is computed from the candidate list as it
\* was when the round started; the round changes neither its input nor
\* self.profiles before it returns; a round starts from the complete output
\* of the round before.  Hence the output of a round is determined by the
\* set of its input alone.
C7_RoundStartSnapshot ==
    /\ [][pc = "for_player" =>
            consistent' = SupportFrom(profile, player, Range(profiles))]_vars
    /\ [][(pc \in InRound /\ pc' \in InRound) =>
            (profiles' = profiles /\ profilesToConsider' = profilesToConsider)]_vars
    /\ [][(pc = "while" /\ pc' = "for_profile") =>
            profilesToConsider' = profiles]_vars
    /\ [][(pc = "for_profile" /\ pc' = "while") =>
            profiles' = reducedProfiles]_vars
    /\ [](RoundReturned =>
            Range(profiles) =
                {p \in Range(profilesToConsider) :
                    \A pl \in Players :
                        returnValue(checkStatus(
                            p, pl, SupportFrom(p, pl, Range(profilesToConsider))))})

\* A support just computed holds the opponent-tuple of a profile that was
\* eliminated earlier in the same round.
C7_Witness ==
    /\ pc \in InRound
    /\ \E j \in 1..(it - 1) :
         /\ j <= Len(profilesToConsider)
         /\ profilesToConsider[j] \notin Range(reducedProfiles)
         /\ profilesToConsider[j] # profile
         /\ \E pl \in Players :
              /\ Strip(profilesToConsider[j], pl) \in consistent
              /\ consistent = SupportFrom(profile, pl, Range(profilesToConsider))
              /\ Strip(profilesToConsider[j], pl) \notin
                     SupportFrom(profile, pl,
                                 Range(reducedProfiles) \cup {profile}
                                     \cup {profilesToConsider[q] :
                                              q \in it..Len(profilesToConsider)})

\* C8: on the worked game, with either network, solve returns exactly
\* <<1, 1>>, and the candidate list is already that after the first round.
C8_WorkedScenario ==
    game = WorkedGame =>
        /\ (pc = "done" => profiles = <<(<<1, 1>>)>>)
        /\ (RoundReturned => profiles = <<(<<1, 1>>)>>)

\* solve has returned on the worked game.
C8_Witness ==
    /\ game = WorkedGame
    /\ pc = "done"
    /\ rounds = 2
    /\ profiles = <<(<<1, 1>>)>>

\* Every two distinct players are neighbors.
CompleteGraph ==
    \A a \in network.nodes : \A b \in network.nodes :
        a # b => {a, b} \in network.edges

\* One round of the elimination in which the network filters nothing: the
\* support of every player is the projection of the whole candidate set.
UnrestrictedRound(S) ==
    {p \in S : \A pl \in Players :
        returnValue(checkStatus(p, pl, {Strip(q, pl) : q \in S}))}

RECURSIVE UnrestrictedElimination(_)
UnrestrictedElimination(S) ==
    LET T == UnrestrictedRound(S)
    IN IF T = S THEN S ELSE UnrestrictedElimination(T)

AllProfiles == Range(product(numActions, numPlayers))

\* C9 as stated: with a complete graph the result equals the result of the
\* unrestricted elimination.
C9_Original ==
    (pc = "done" /\ CompleteGraph) =>
        Range(profiles) = UnrestrictedElimination(AllProfiles)

\* C9, amended: with a complete graph the result is a subset of the result
\* of the unrestricted elimination.
C9_CompleteWithinUnrestricted ==
    (pc = "done" /\ CompleteGraph) =>
        Range(profiles) \subseteq UnrestrictedElimination(AllProfiles)

\* solve has returned under a complete graph with strictly fewer profiles
\* than the unrestricted elimination keeps.
C9_Witness ==
    /\ pc = "done"
    /\ CompleteGraph
    /\ numPlayers >= 2
    /\ Range(profiles) # UnrestrictedElimination(AllProfiles)
    /\ Range(profiles) \subseteq UnrestrictedElimination(AllProfiles)

\* C5: solve terminates, and it applies the reduction at most
\* numActions^numPlayers times, the round that detects convergence included.
C5_TerminatesWithinBound ==
    /\ <>(pc = "done")
    /\ [](rounds <= Pow(numActions, numPlayers))

\* solve has returned after several rounds.
C5_Witness == pc = "done" /\ rounds >= 3

\* C3: consistentStrategies returns exactly the opponent-tuples of the
\* profiles of the candidate list that agree with the reference profile on
\* every neighbor of the player; for a player without neighbors, the
\* opponent-tuples of the whole list.
C3_ConsistentSupport ==
    pc = "returned_consistentStrategies" =>
        /\ consistent = SupportFrom(profile, player, Range(profilesToConsider))
        /\ (\A e \in network.edges : player \notin e) =>
               consistent = {Strip(q, player) : q \in Range(profilesToConsider)}

\* The player has neighbors, the reference profile is not in the candidate
\* list, and the filter kept some but not all of the opponent-tuples.
C3_Witness ==
    /\ pc = "returned_consistentStrategies"
    /\ \E e \in network.edges : player \in e
    /\ profile \notin Range(profilesToConsider)
    /\ consistent # {}
    /\ consistent # {Strip(q, player) : q \in Range(profilesToConsider)}

\* The opponent-tuple o with action a put at player pl's position.
Insert(o, pl, a) ==
    [j \in 1..(Len(o) + 1) |->
        IF j <= pl THEN o[j] ELSE IF j = pl + 1 THEN a ELSE o[j - 1]]

\* The largest utility of the game.
MaxUtility ==
    CHOOSE u \in {game[p][i] : p \in DOMAIN game, i \in 1..numPlayers} :
        \A p \in DOMAIN game : \A i \in 1..numPlayers : game[p][i] <= u

\* If some conjecture makes the action a best response, one does whose
\* weights are w[o] / (sum of w) for integers w[o] in 0..WeightBound: the
\* conjectures that do form a cone cut out by at most numActions - 1
\* utility rows with integer entries of size at most MaxUtility, and an
\* extreme ray of it is spanned by minors of at most that many rows.
WeightBound ==
    LET b == Factorial(numActions - 1) * Pow(MaxUtility, numActions - 1)
    IN IF b < 1 THEN 1 ELSE b

\* Under the conjecture with weights w[o] / (sum of w), player pl's
\* expected utility of action a, times the sum of w.
WeightedUtility(w, pl, a) ==
    SumOver([o \in DOMAIN w |-> w[o] * game[Insert(o, pl, a)][pl + 1]], DOMAIN w)

\* Some probability distribution over the support makes the action of pl
\* in pr at least as good as every action of pl.
ExistsConjecture(pr, pl, support) ==
    \E w \in [support -> 0..WeightBound] :
        /\ SumOver(w, support) > 0
        /\ \A a \in 0..(numActions - 1) :
               WeightedUtility(w, pl, a) <= WeightedUtility(w, pl, pr[pl + 1])

\* C4: on a non-empty support checkBestResponse returns true iff some
\* probability distribution over the support makes the fixed action at
\* least as good as every action of the player, and it returns false
\* exactly when the backend reports Infeasible.
C4_BestResponseIffConjecture ==
    pc = "returned_checkBestResponse" =>
        /\ isBestResponse <=> ExistsConjecture(profile, player, consistent)
        /\ ~isBestResponse <=> status = -1

\* checkBestResponse has returned true on a support none of whose
\* opponent-tuples alone makes the action a best response: the conjecture
\* has to mix.
C4_Witness ==
    /\ pc = "returned_checkBestResponse"
    /\ isBestResponse
    /\ \A o \in consistent : ~ExistsConjecture(profile, player, {o})

\* The check has returned false.
C4_WitnessInfeasible ==
    /\ pc = "returned_checkBestResponse"
    /\ ~isBestResponse
    /\ Cardinality(consistent) >= 2

\* C10 as stated: a solve that ends with a status other than Optimal and
\* Infeasible ends the check with an error (no value is returned) and the
\* profile is not retained by that check.
C10_AmbiguousStatusSurfaced ==
    [][(pc = "for_player" /\ status' \notin {1, -1}) =>
          /\ pc' = "SolverAmbiguous"
          /\ reducedProfiles' = reducedProfiles]_vars

\* C11 as stated: checkBestResponse called with an empty support returns
\* false; it raises nothing.
C11_EmptySupportInfeasible ==
    (consistent = {} /\ pc \in {"returned_checkBestResponse", "TypeError"}) =>
        (pc = "returned_checkBestResponse" /\ ~isBestResponse)

\* A round has just returned the empty list from a non-empty one.
Emptied == RoundReturned /\ profiles = <<>> /\ profilesToConsider # <<>>

\* C12: when a round eliminates every profile, solve runs one more round on
\* the empty list, which examines no profile, issues no check and returns
\* the empty list; the loop then stops and solve returns the empty list.
\* No step of the run raises.
C12_EmptyResultReturned ==
    /\ [][Emptied =>
            /\ pc' = "for_profile"
            /\ profilesToConsider' = <<>>
            /\ rounds' = rounds + 1]_vars
    /\ [][(pc \in InRound /\ profilesToConsider = <<>>) =>
            /\ pc' = "while"
            /\ profiles' = <<>>
            /\ UNCHANGED <<consistent, status, isBestResponse>>]_vars
    /\ [][(RoundReturned /\ profilesToConsider = <<>>) =>
            (pc' = "done" /\ profiles' = <<>>)]_vars
    /\ [](pc \in {"while", "for_profile", "for_player", "done"})
    /\ Emptied ~> (pc = "done" /\ profiles = <<>>)

\* solve has returned the empty list, one round after the round that
\* eliminated every profile.
C12_Witness ==
    /\ pc = "done"
    /\ profiles = <<>>
    /\ profilesToConsider = <<>>
    /\ rounds = 2
    /\ status = -1

\* The graph's nodes are not exactly the players 0..numPlayers-1.
InvalidNetwork == network.nodes # 0..(numPlayers - 1)

\* C13 as stated: on a graph whose nodes are not exactly the players, the
\* run fails with InvalidNetwork before the first round: no round is
\* entered, no support is computed, no check is made and nothing is
\* returned.
C13_InvalidNetworkRejected ==
    InvalidNetwork =>
        /\ pc \in {"while", "InvalidNetwork"}
        /\ rounds = 0

\* C14: every profile reduceProfiles examines is in the round's input, the
\* support of every check it issues holds the examined profile's own
\* opponent-tuple, and no check of a run of solve meets an empty support.
C14_SupportNonEmpty ==
    /\ [](pc = "for_player" => profile \in Range(profilesToConsider))
    /\ [][pc = "for_player" =>
            /\ Strip(profile, player) \in consistent'
            /\ pc' \in InRound]_vars
    /\ [](pc # "TypeError")

\* In a round after the first, on a list some profiles have left, a check
\* was issued whose support is the examined profile's own opponent-tuple
\* and nothing else, for a player with a neighbor.
C14_Witness ==
    /\ pc \in InRound
    /\ rounds >= 2
    /\ Len(profilesToConsider) < Pow(numActions, numPlayers)
    /\ \E pl \in Players :
         /\ neighbors(pl) # {}
         /\ consistent = SupportFrom(profile, pl, Range(profilesToConsider))
         /\ consistent = {Strip(profile, pl)}

\* p is a pure-strategy Nash equilibrium: no player has an action with a
\* strictly higher own utility against the others' actions in p.
IsPureNash(p) ==
    \A pl \in Players : \A a \in 0..(numActions - 1) :
        game[[p EXCEPT ![pl + 1] = a]][pl + 1] <= game[p][pl + 1]

PureNash == {p \in AllProfiles : IsPureNash(p)}

\* C15: every pure-strategy Nash equilibrium is in the candidate list at
\* every point of the run, hence after every round and in the list solve
\* returns, whatever the network.
C15_PureNashSurvives ==
    /\ PureNash \subseteq Range(profiles)
    /\ (pc = "for_profile" /\ it > Len(profilesToConsider)) =>
           PureNash \subseteq Range(reducedProfiles)

\* solve has returned, after a round that removed profiles, a list that
\* holds a pure Nash equilibrium and a profile that is none, under a
\* network with an edge that is not complete.
C15_Witness ==
    /\ pc = "done"
    /\ rounds >= 2
    /\ PureNash # {}
    /\ Range(profiles) # PureNash
    /\ network.edges # {}
    /\ ~CompleteGraph

\* C16: with a complete graph every support computed during solve is the
\* singleton of the examined profile's own opponent-tuple; the candidate
\* set after the first round, after every later round and as returned is
\* exactly the set of pure Nash equilibria; and solve applies the
\* reduction at most twice.
C16_CompleteGraphPureNash ==
    /\ [][(pc = "for_player" /\ CompleteGraph) =>
            consistent' = {Strip(profile, player)}]_vars
    /\ []((RoundReturned /\ CompleteGraph) => Range(profiles) = PureNash)
    /\ []((pc = "done" /\ CompleteGraph) => Range(profiles) = PureNash)
    /\ [](CompleteGraph => rounds <= 2)

\* solve has returned under a complete graph on at least two players,
\* after two rounds, a non-empty list that is not every profile.
C16_Witness ==
    /\ pc = "done"
    /\ CompleteGraph
    /\ numPlayers >= 2
    /\ rounds = 2
    /\ profiles # <<>>
    /\ Range(profiles) = PureNash
    /\ PureNash # AllProfiles

\* The support of player pl's check of p on the candidate set S under the
\* graph with edges E on the players.
SupportUnder(E, p, pl, S) ==
    {Strip(q, pl) :
        q \in {x \in S : \A e \in E :
                  \A n \in e : (pl \in e /\ n # pl) => x[n + 1] = p[n + 1]}}

\* One round on the candidate set S under the graph with edges E.
RoundUnder(E, S) ==
    {p \in S : \A pl \in Players :
        returnValue(checkStatus(p, pl, SupportUnder(E, p, pl, S)))}

\* The candidate set after k rounds under the graph with edges E.
RECURSIVE CandidatesAfter(_, _)
CandidatesAfter(E, k) ==
    IF k = 0 THEN AllProfiles ELSE RoundUnder(E, CandidatesAfter(E, k - 1))

\* The set the rounds under the graph with edges E converge to from S.
RECURSIVE ResultUnder(_, _)
ResultUnder(E, S) ==
    LET T == RoundUnder(E, S)
    IN IF T = S THEN S ELSE ResultUnder(E, T)

\* C17: for every graph G on the players whose edges are edges of the run's
\* network, the candidate set of the run after each round is a subset of
\* the candidate set after as many rounds under G, and the set the run
\* returns is a subset of the set returned under G.  The sets under G are
\* those of the run whose network is G: after k rounds the candidate set of
\* a run is CandidatesAfter of its network and k, and the set it returns
\* is ResultUnder of its network.
C17_AntitoneInNetwork ==
    /\ RoundReturned =>
          /\ Range(profiles) = CandidatesAfter(network.edges, rounds)
          /\ \A E \in SUBSET network.edges :
                 Range(profiles) \subseteq CandidatesAfter(E, rounds)
    /\ pc = "done" =>
          /\ Range(profiles) = ResultUnder(network.edges, AllProfiles)
          /\ \A E \in SUBSET network.edges :
                 Range(profiles) \subseteq ResultUnder(E, AllProfiles)

\* solve has returned, after a round that removed profiles, a non-empty
\* list that lacks a profile returned under a graph with one edge fewer.
C17_Witness ==
    /\ pc = "done"
    /\ rounds >= 3
    /\ profiles # <<>>
    /\ \E e \in network.edges :
         ResultUnder(network.edges \ {e}, AllProfiles) # Range(profiles)

====
